---- MODULE Spec2Model ----
(***************************************************************************)
(* Model of object_store/src/range.rs: the ByteRange value, its            *)
(* construction from RangeBounds<usize>, expected_len, Display and the     *)
(* conversion to std::io::SeekFrom.                                        *)
(*                                                                         *)
(* usize is modelled as an unsigned word of WordBits bits (a scaled-down   *)
(* 64-bit target: u64 has the same width as usize, i64 one bit less of     *)
(* magnitude).  Arithmetic overflow of `+`/`-` on usize is not undefined   *)
(* in Rust but depends on the build: with overflow checks (debug profile)  *)
(* it panics, without them (release profile) it wraps.  The build is the   *)
(* variable overflow_checks, fixed in Init.                                *)
(***************************************************************************)
EXTENDS Integers, Sequences, FiniteSets, TLC

\* ------------------------------------------------------------------ bounds
WordBits == 4

\* ------------------------------------------------------- machine integers
USIZE_MAX == 2^WordBits - 1
U64_MAX == 2^WordBits - 1
I64_MAX == 2^(WordBits - 1) - 1
Usize == 0..USIZE_MAX

\* ----------------------------------------------------------------- Option
None == <<>>
Some(x) == <<x>>
OptUsize == {None} \cup {Some(x) : x \in Usize}

\* Option::or : self if it is Some, otherwise the argument
or(a, b) == IF a # None THEN a ELSE b

\* usize::checked_sub : None when the difference would be negative
checked_sub_wrapping(a, b) == Some((a + USIZE_MAX + 1 - b) % (USIZE_MAX + 1))
checked_sub(a, b) == IF a >= b THEN Some(a - b) ELSE None

\* ------------------------------------------------------- outcomes of calls
Unit == [kind |-> "unit"]
Panic == [kind |-> "panic"]
Value(v) == [kind |-> "value", val |-> v]
Ok(v) == [kind |-> "ok", val |-> v]
Err == [kind |-> "err", err |-> "TryFromIntError"]

\* `a + 1` and `a - 1` on usize: panic under overflow checks, wrap otherwise
add_one(a, checks) ==
    IF a + 1 > USIZE_MAX
    THEN IF checks THEN Panic ELSE Value((a + 1) % (USIZE_MAX + 1))
    ELSE Value(a + 1)
sub_one(a, checks) ==
    IF a - 1 < 0
    THEN IF checks THEN Panic ELSE Value((a + USIZE_MAX) % (USIZE_MAX + 1))
    ELSE Value(a - 1)

\* -------------------------------------------------------------- ByteRange
Range(start, end) == [tag |-> "Range", start |-> start, end |-> end]
Suffix(n) == [tag |-> "Suffix", n |-> n]
NoRange == [tag |-> "none"]

\* ------------------------------------------------------- std::ops::Bound
Included(i) == <<"Included", i>>
Excluded(i) == <<"Excluded", i>>
Unbounded == <<"Unbounded">>
Bound == {Unbounded} \cup {Included(i) : i \in Usize} \cup {Excluded(i) : i \in Usize}
NoBounds == <<>>

\* ----------------------------------------------------------- expected_len
expected_len_total_first(self, total_length) ==
    IF self.tag = "Range"
    THEN LET e == or(total_length, self.end)
         IN  IF e = None THEN None ELSE checked_sub(e[1], self.start)
    ELSE Some(self.n)
expected_len_clamped(self, total_length) ==
    IF self.tag = "Range"
    THEN LET e == or(self.end, total_length)
         IN  IF e = None THEN None ELSE checked_sub(e[1], self.start)
    ELSE IF total_length # None /\ total_length[1] < self.n
         THEN total_length
         ELSE Some(self.n)
expected_len(self, total_length) ==
    IF self.tag = "Range"
    THEN LET e == or(self.end, total_length)
         IN  IF e = None THEN None ELSE checked_sub(e[1], self.start)
    ELSE Some(self.n)

\* ---------------------------------------------------------------- Display
BYTES == <<"b", "y", "t", "e", "s">>
Digits == <<"0", "1", "2", "3", "4", "5", "6", "7", "8", "9">>

\* `{n}` for a usize: decimal, most significant digit first, "0" for zero
RECURSIVE FmtUsize(_)
FmtUsize(n) ==
    IF n < 10
    THEN <<Digits[n + 1]>>
    ELSE FmtUsize(n \div 10) \o <<Digits[(n % 10) + 1]>>

fmt_reordering(self) ==
    BYTES \o <<"=">> \o
    IF self.tag = "Range"
    THEN IF self.end # None
         THEN IF self.start > self.end[1]
              THEN FmtUsize(self.end[1]) \o <<"-">> \o FmtUsize(self.start)
              ELSE FmtUsize(self.start) \o <<"-">> \o FmtUsize(self.end[1])
         ELSE FmtUsize(self.start) \o <<"-">>
    ELSE <<"-">> \o FmtUsize(self.n)
fmt(self) ==
    BYTES \o <<"=">> \o
    IF self.tag = "Range"
    THEN FmtUsize(self.start) \o <<"-">> \o
         (IF self.end # None THEN FmtUsize(self.end[1]) ELSE <<>>)
    ELSE <<"-">> \o FmtUsize(self.n)

\* ------------------------------------------- From<T: RangeBounds<usize>>
from(value, checks) ==
    LET start == CASE value[1][1] = "Included" -> Value(value[1][2])
                   [] value[1][1] = "Excluded" -> add_one(value[1][2], checks)
                   [] value[1][1] = "Unbounded" -> Value(0)
        end == CASE value[2][1] = "Included" -> Value(Some(value[2][2]))
                 [] value[2][1] = "Excluded" ->
                      LET d == sub_one(value[2][2], checks)
                      IN  IF d = Panic THEN Panic ELSE Value(Some(d.val))
                 [] value[2][1] = "Unbounded" -> Value(None)
    IN  IF start = Panic \/ end = Panic
        THEN Panic
        ELSE Value(Range(start.val, end.val))

\* ------------------------------------------------------ TryInto<SeekFrom>
SeekStart(n) == [tag |-> "Start", pos |-> n]
SeekEnd(n) == [tag |-> "End", pos |-> n]

\* u64::try_from(usize) and i64::try_from(usize)
u64_try_from(x) == IF x <= U64_MAX THEN Ok(x) ELSE Err
i64_cast(x) == Ok(x)
i64_try_from(x) == IF x <= I64_MAX THEN Ok(x) ELSE Err

try_into_positive(self) ==
    IF self.tag = "Range"
    THEN LET r == u64_try_from(self.start)
         IN  IF r = Err THEN Err ELSE Ok(SeekStart(r.val))
    ELSE LET r == i64_try_from(self.n)
         IN  IF r = Err THEN Err ELSE Ok(SeekEnd(r.val))
try_into(self) ==
    IF self.tag = "Range"
    THEN LET r == u64_try_from(self.start)
         IN  IF r = Err THEN Err ELSE Ok(SeekStart(r.val))
    ELSE LET r == i64_try_from(self.n)
         IN  IF r = Err THEN Err ELSE Ok(SeekEnd(-r.val))

\* ------------------------------------------------------------------ state
\* build profile: TRUE = arithmetic overflow panics, FALSE = it wraps
VARIABLE overflow_checks
\* the bounds passed to From, or NoBounds
VARIABLE value
\* the ByteRange under inspection, or NoRange
VARIABLE range
\* total_length argument of the call in op (None otherwise)
VARIABLE total_length
\* last operation performed
VARIABLE op
\* its outcome
VARIABLE ret

vars == <<overflow_checks, value, range, total_length, op, ret>>

Init ==
    /\ overflow_checks \in BOOLEAN
    /\ value = NoBounds
    /\ range = NoRange
    /\ total_length = None
    /\ op = "start"
    /\ ret = Unit

\* ByteRange::Range { start, end } written directly
NewRange(start, end) ==
    /\ op = "start"
    /\ range' = Range(start, end)
    /\ op' = "new"
    /\ ret' = Unit
    /\ UNCHANGED <<overflow_checks, value, total_length>>

\* ByteRange::Suffix(n) written directly
NewSuffix(n) ==
    /\ op = "start"
    /\ range' = Suffix(n)
    /\ op' = "new"
    /\ ret' = Unit
    /\ UNCHANGED <<overflow_checks, value, total_length>>

\* ByteRange::from(value); a panic unwinds and leaves no value behind
CallFrom(sb, eb) ==
    /\ op = "start"
    /\ value' = <<sb, eb>>
    /\ op' = "from"
    /\ ret' = from(<<sb, eb>>, overflow_checks)
    /\ range' = IF ret'.kind = "value" THEN ret'.val ELSE NoRange
    /\ UNCHANGED <<overflow_checks, total_length>>

CallExpectedLen(t) ==
    /\ range # NoRange
    /\ total_length' = t
    /\ op' = "expected_len"
    /\ ret' = Value(expected_len(range, t))
    /\ UNCHANGED <<overflow_checks, value, range>>

CallFmt ==
    /\ range # NoRange
    /\ op' = "fmt"
    /\ ret' = Value(fmt(range))
    /\ total_length' = None
    /\ UNCHANGED <<overflow_checks, value, range>>

CallTryInto ==
    /\ range # NoRange
    /\ op' = "try_into"
    /\ ret' = try_into(range)
    /\ total_length' = None
    /\ UNCHANGED <<overflow_checks, value, range>>

Next ==
    \/ \E start \in Usize, end \in OptUsize : NewRange(start, end)
    \/ \E n \in Usize : NewSuffix(n)
    \/ \E sb \in Bound, eb \in Bound : CallFrom(sb, eb)
    \/ \E t \in OptUsize : CallExpectedLen(t)
    \/ CallFmt
    \/ CallTryInto

Spec == Init /\ [][Next]_vars

\* ================================================================ claims

\* C1: for an Explicit range with an end present and start <= end,
\* expected_len returns the number of bytes from start through end inclusive
\* (end - start + 1), whatever total_length is.
C1_InclusiveByteCount ==
    (op = "expected_len" /\ range.tag = "Range" /\ range.end # None
        /\ range.start <= range.end[1])
    => ret = Value(Some(range.end[1] - range.start + 1))

C3_StartPastEndIsNone ==
    (op = "expected_len" /\ range.tag = "Range")
    => \A e \in Usize :
         ( /\ \/ range.end = Some(e)
              \/ (range.end = None /\ total_length = Some(e))
           /\ range.start > e )
         => ret = Value(None)
C3_Witness ==
    /\ op = "expected_len"
    /\ range = Range(10, Some(5))
    /\ total_length = Some(14)
    /\ ret = Value(None)

\* C4: for every Suffix{count} and every total_length, expected_len returns
\* exactly Some(count): never clamped to total_length, never None.
C4_SuffixIsCount ==
    (op = "expected_len" /\ range.tag = "Suffix")
    => ret = Value(Some(range.n))
C4_Witness ==
    /\ op = "expected_len"
    /\ range = Suffix(9)
    /\ total_length = Some(4)
    /\ ret = Value(Some(9))

\* C5: conversion to a positioning instruction fails with the
\* numeric-conversion error exactly when the offset does not fit: start above
\* the unsigned 64-bit maximum for Explicit, count above the signed 64-bit
\* maximum for Suffix; no other operation reports an error.
C5_ErrorIffOffsetDoesNotFit ==
    /\ op = "try_into"
       => /\ ret.kind \in {"ok", "err"}
          /\ ret = Err
             <=> \/ (range.tag = "Range" /\ range.start > 2^WordBits - 1)
                 \/ (range.tag = "Suffix" /\ range.n > 2^(WordBits - 1) - 1)
    /\ op # "try_into" => ret.kind # "err"
C5_Witness ==
    /\ op = "try_into"
    /\ range = Suffix(2^(WordBits - 1))
    /\ ret = Err

\* C6: when the conversion succeeds, Explicit{start, end} yields "seek to
\* absolute offset start", the same instruction for every value of end, and
\* Suffix{count} yields "seek relative to the end by -count".
C6_SeekInstruction ==
    (op = "try_into" /\ ret.kind = "ok")
    => /\ range.tag = "Range"
          => /\ ret.val = [tag |-> "Start", pos |-> range.start]
             /\ \A e \in OptUsize : try_into(Range(range.start, e)) = ret
       /\ range.tag = "Suffix"
          => /\ ret.val.tag = "End"
             /\ ret.val.pos + range.n = 0
C6_Witness ==
    /\ op = "try_into"
    /\ range = Suffix(3)
    /\ ret = Ok([tag |-> "End", pos |-> 0 - 3])

\* C7: construction from a bounded interval always produces Explicit with
\* start = i for Included(i), i + 1 for Excluded(i), 0 for Unbounded, and
\* end = Some(i) for Included(i), Some(i - 1) for Excluded(i), None for
\* Unbounded.
C7_FromBounds ==
    op = "from"
    => LET sb == value[1]
           eb == value[2]
           start == IF sb[1] = "Included" THEN sb[2]
                    ELSE IF sb[1] = "Excluded" THEN sb[2] + 1 ELSE 0
           end == IF eb[1] = "Included" THEN <<eb[2]>>
                  ELSE IF eb[1] = "Excluded" THEN <<eb[2] - 1>> ELSE <<>>
       IN  ret = Value([tag |-> "Range", start |-> start, end |-> end])

\* C8: construction, expected_len and rendering are total: for every pair of
\* bounds over the whole unsigned word range and every total_length they
\* return a value without panicking, and construction never wraps an offset
\* around the word range.
C8_TotalAndNoWrap ==
    op \in {"from", "expected_len", "fmt"}
    => /\ ret.kind = "value"
       /\ op = "from"
          => /\ value[1][1] = "Excluded" => range.start > value[1][2]
             /\ value[2][1] = "Excluded" => range.end[1] < value[2][2]

\* s is the decimal numeral of n: only digits, most significant first, no
\* leading zero
IsDecimalOf(s, n) ==
    /\ Len(s) >= 1
    /\ n < 10^Len(s)
    /\ Len(s) > 1 => n >= 10^(Len(s) - 1)
    /\ \A i \in 1..Len(s) :
         \E d \in 0..9 :
           /\ s[i] = Digits[d + 1]
           /\ d = (n \div 10^(Len(s) - i)) % 10

\* C9: rendering begins with "bytes=" and is exactly "bytes=<start>-<e>" for
\* Explicit{start, Some(e)}, "bytes=<start>-" for Explicit{start, None} and
\* "bytes=-<count>" for Suffix{count}, offsets in decimal, start and end
\* rendered as given even when start > end.
C9_Rendering ==
    op = "fmt"
    => LET s == ret.val
           body == SubSeq(s, 7, Len(s))
           dash == CHOOSE k \in 0..Len(body) :
                     \/ k = 0 /\ \A j \in 1..Len(body) : body[j] # "-"
                     \/ k > 0 /\ body[k] = "-" /\ \A j \in 1..(k - 1) : body[j] # "-"
           left == SubSeq(body, 1, dash - 1)
           right == SubSeq(body, dash + 1, Len(body))
       IN  /\ ret.kind = "value"
           /\ Len(s) >= 7
           /\ SubSeq(s, 1, 6) = <<"b", "y", "t", "e", "s", "=">>
           /\ dash > 0
           /\ range.tag = "Range" /\ range.end # None
              => IsDecimalOf(left, range.start) /\ IsDecimalOf(right, range.end[1])
           /\ range.tag = "Range" /\ range.end = None
              => IsDecimalOf(left, range.start) /\ right = <<>>
           /\ range.tag = "Suffix"
              => left = <<>> /\ IsDecimalOf(right, range.n)
C9_Witness ==
    /\ op = "fmt"
    /\ range = Range(12, Some(5))
    /\ ret = Value(<<"b", "y", "t", "e", "s", "=", "1", "2", "-", "5">>)

\* C10: for every resource length t >= 1 and start <= t - 1, the open-ended
\* range Explicit{start, None} evaluated with total_length = Some(t) and the
\* range naming the last byte, Explicit{start, Some(t - 1)}, return the same
\* expected_len.
C10_EndAndTotalAgree ==
    (op = "expected_len" /\ range.tag = "Range" /\ range.end = None
        /\ total_length # None /\ total_length[1] >= 1
        /\ range.start <= total_length[1] - 1)
    => \A t2 \in OptUsize :
         ret = Value(expected_len(Range(range.start, Some(total_length[1] - 1)), t2))

====
